---- MODULE Spec2Model ----
(***************************************************************************)
(* Citation reconciliation and temporal aggregation of                     *)
(* update_publications_analytics.py.                                       *)
(*                                                                         *)
(* Python strings are sequences of one-character strings ("2021" is        *)
(* <<"2","0","2","1">>), '' is <<>> and None is the one-element tuple      *)
(* <<"None">>, which is no character sequence.  A dict that the code       *)
(* iterates (seen_dois, all_citing_by_doi, output) is the sequence of its  *)
(* entries in insertion order.                                             *)
(***************************************************************************)
EXTENDS Integers, Sequences, FiniteSets, TLC

VARIABLES
    TRANSLATOR_pubs,       \* the tracked publications loaded from the configuration
    pending_dates,         \* main: the cutoff dates still to report
    pc,                    \* position of the run
    i,                     \* get_publications_citations: index of the loop (1-based)
    openalex_cits,         \* local of the loop: last result of the OpenAlex adapter
    semanticscholar_cits,  \* local of the loop: last result of the Semantic Scholar adapter
    all_citations,         \* local of the loop: the combined citation list
    all_citing_by_doi,     \* the mapping under construction
    output,                \* local: the mapping returned and written
    snapshot_file,         \* all_citing_papers_by_doi.json
    calls,                 \* the adapter calls made so far, in order, and whether each found the publication
    outs,                  \* the aggregation results computed so far, in order
    merge_runs             \* results of the merge step applied to both concatenations

vars == <<TRANSLATOR_pubs, pending_dates, pc, i, openalex_cits, semanticscholar_cits,
          all_citations, all_citing_by_doi, output, snapshot_file, calls, outs,
          merge_runs>>

-----------------------------------------------------------------------------
(* Bounds of the model *)

MaxPubs == 2
MaxCits == 2
MaxDates == 2

-----------------------------------------------------------------------------
(* Python values *)

None == <<"None">>
EmptyStr == <<>>

\* bool(s) for a value that is a str or None
Truthy(s) == s # None /\ s # EmptyStr

Min(a, b) == IF a <= b THEN a ELSE b

\* s[:n]
Prefix(s, n) == SubSeq(s, 1, Min(Len(s), n))

\* the decimal digits outside ASCII in code point order, each written "U+" and
\* its code point
NonAsciiDigits ==
    << "U+0660", "U+0661", "U+0662", "U+0663", "U+0664", "U+0665", "U+0666", "U+0667",
       "U+0668", "U+0669", "U+06F0", "U+06F1", "U+06F2", "U+06F3", "U+06F4", "U+06F5",
       "U+06F6", "U+06F7", "U+06F8", "U+06F9", "U+07C0", "U+07C1", "U+07C2", "U+07C3",
       "U+07C4", "U+07C5", "U+07C6", "U+07C7", "U+07C8", "U+07C9", "U+0966", "U+0967",
       "U+0968", "U+0969", "U+096A", "U+096B", "U+096C", "U+096D", "U+096E", "U+096F",
       "U+09E6", "U+09E7", "U+09E8", "U+09E9", "U+09EA", "U+09EB", "U+09EC", "U+09ED",
       "U+09EE", "U+09EF", "U+0A66", "U+0A67", "U+0A68", "U+0A69", "U+0A6A", "U+0A6B",
       "U+0A6C", "U+0A6D", "U+0A6E", "U+0A6F", "U+0AE6", "U+0AE7", "U+0AE8", "U+0AE9",
       "U+0AEA", "U+0AEB", "U+0AEC", "U+0AED", "U+0AEE", "U+0AEF", "U+0B66", "U+0B67",
       "U+0B68", "U+0B69", "U+0B6A", "U+0B6B", "U+0B6C", "U+0B6D", "U+0B6E", "U+0B6F",
       "U+0BE6", "U+0BE7", "U+0BE8", "U+0BE9", "U+0BEA", "U+0BEB", "U+0BEC", "U+0BED",
       "U+0BEE", "U+0BEF", "U+0C66", "U+0C67", "U+0C68", "U+0C69", "U+0C6A", "U+0C6B",
       "U+0C6C", "U+0C6D", "U+0C6E", "U+0C6F", "U+0CE6", "U+0CE7", "U+0CE8", "U+0CE9",
       "U+0CEA", "U+0CEB", "U+0CEC", "U+0CED", "U+0CEE", "U+0CEF", "U+0D66", "U+0D67",
       "U+0D68", "U+0D69", "U+0D6A", "U+0D6B", "U+0D6C", "U+0D6D", "U+0D6E", "U+0D6F",
       "U+0DE6", "U+0DE7", "U+0DE8", "U+0DE9", "U+0DEA", "U+0DEB", "U+0DEC", "U+0DED",
       "U+0DEE", "U+0DEF", "U+0E50", "U+0E51", "U+0E52", "U+0E53", "U+0E54", "U+0E55",
       "U+0E56", "U+0E57", "U+0E58", "U+0E59", "U+0ED0", "U+0ED1", "U+0ED2", "U+0ED3",
       "U+0ED4", "U+0ED5", "U+0ED6", "U+0ED7", "U+0ED8", "U+0ED9", "U+0F20", "U+0F21",
       "U+0F22", "U+0F23", "U+0F24", "U+0F25", "U+0F26", "U+0F27", "U+0F28", "U+0F29",
       "U+1040", "U+1041", "U+1042", "U+1043", "U+1044", "U+1045", "U+1046", "U+1047",
       "U+1048", "U+1049", "U+1090", "U+1091", "U+1092", "U+1093", "U+1094", "U+1095",
       "U+1096", "U+1097", "U+1098", "U+1099", "U+17E0", "U+17E1", "U+17E2", "U+17E3",
       "U+17E4", "U+17E5", "U+17E6", "U+17E7", "U+17E8", "U+17E9", "U+1810", "U+1811",
       "U+1812", "U+1813", "U+1814", "U+1815", "U+1816", "U+1817", "U+1818", "U+1819",
       "U+1946", "U+1947", "U+1948", "U+1949", "U+194A", "U+194B", "U+194C", "U+194D",
       "U+194E", "U+194F", "U+19D0", "U+19D1", "U+19D2", "U+19D3", "U+19D4", "U+19D5",
       "U+19D6", "U+19D7", "U+19D8", "U+19D9", "U+1A80", "U+1A81", "U+1A82", "U+1A83",
       "U+1A84", "U+1A85", "U+1A86", "U+1A87", "U+1A88", "U+1A89", "U+1A90", "U+1A91",
       "U+1A92", "U+1A93", "U+1A94", "U+1A95", "U+1A96", "U+1A97", "U+1A98", "U+1A99",
       "U+1B50", "U+1B51", "U+1B52", "U+1B53", "U+1B54", "U+1B55", "U+1B56", "U+1B57",
       "U+1B58", "U+1B59", "U+1BB0", "U+1BB1", "U+1BB2", "U+1BB3", "U+1BB4", "U+1BB5",
       "U+1BB6", "U+1BB7", "U+1BB8", "U+1BB9", "U+1C40", "U+1C41", "U+1C42", "U+1C43",
       "U+1C44", "U+1C45", "U+1C46", "U+1C47", "U+1C48", "U+1C49", "U+1C50", "U+1C51",
       "U+1C52", "U+1C53", "U+1C54", "U+1C55", "U+1C56", "U+1C57", "U+1C58", "U+1C59",
       "U+A620", "U+A621", "U+A622", "U+A623", "U+A624", "U+A625", "U+A626", "U+A627",
       "U+A628", "U+A629", "U+A8D0", "U+A8D1", "U+A8D2", "U+A8D3", "U+A8D4", "U+A8D5",
       "U+A8D6", "U+A8D7", "U+A8D8", "U+A8D9", "U+A900", "U+A901", "U+A902", "U+A903",
       "U+A904", "U+A905", "U+A906", "U+A907", "U+A908", "U+A909", "U+A9D0", "U+A9D1",
       "U+A9D2", "U+A9D3", "U+A9D4", "U+A9D5", "U+A9D6", "U+A9D7", "U+A9D8", "U+A9D9",
       "U+A9F0", "U+A9F1", "U+A9F2", "U+A9F3", "U+A9F4", "U+A9F5", "U+A9F6", "U+A9F7",
       "U+A9F8", "U+A9F9", "U+AA50", "U+AA51", "U+AA52", "U+AA53", "U+AA54", "U+AA55",
       "U+AA56", "U+AA57", "U+AA58", "U+AA59", "U+ABF0", "U+ABF1", "U+ABF2", "U+ABF3",
       "U+ABF4", "U+ABF5", "U+ABF6", "U+ABF7", "U+ABF8", "U+ABF9", "U+FF10", "U+FF11",
       "U+FF12", "U+FF13", "U+FF14", "U+FF15", "U+FF16", "U+FF17", "U+FF18", "U+FF19",
       "U+104A0", "U+104A1", "U+104A2", "U+104A3", "U+104A4", "U+104A5", "U+104A6",
       "U+104A7", "U+104A8", "U+104A9", "U+10D30", "U+10D31", "U+10D32", "U+10D33",
       "U+10D34", "U+10D35", "U+10D36", "U+10D37", "U+10D38", "U+10D39", "U+11066",
       "U+11067", "U+11068", "U+11069", "U+1106A", "U+1106B", "U+1106C", "U+1106D",
       "U+1106E", "U+1106F", "U+110F0", "U+110F1", "U+110F2", "U+110F3", "U+110F4",
       "U+110F5", "U+110F6", "U+110F7", "U+110F8", "U+110F9", "U+11136", "U+11137",
       "U+11138", "U+11139", "U+1113A", "U+1113B", "U+1113C", "U+1113D", "U+1113E",
       "U+1113F", "U+111D0", "U+111D1", "U+111D2", "U+111D3", "U+111D4", "U+111D5",
       "U+111D6", "U+111D7", "U+111D8", "U+111D9", "U+112F0", "U+112F1", "U+112F2",
       "U+112F3", "U+112F4", "U+112F5", "U+112F6", "U+112F7", "U+112F8", "U+112F9",
       "U+11450", "U+11451", "U+11452", "U+11453", "U+11454", "U+11455", "U+11456",
       "U+11457", "U+11458", "U+11459", "U+114D0", "U+114D1", "U+114D2", "U+114D3",
       "U+114D4", "U+114D5", "U+114D6", "U+114D7", "U+114D8", "U+114D9", "U+11650",
       "U+11651", "U+11652", "U+11653", "U+11654", "U+11655", "U+11656", "U+11657",
       "U+11658", "U+11659", "U+116C0", "U+116C1", "U+116C2", "U+116C3", "U+116C4",
       "U+116C5", "U+116C6", "U+116C7", "U+116C8", "U+116C9", "U+11730", "U+11731",
       "U+11732", "U+11733", "U+11734", "U+11735", "U+11736", "U+11737", "U+11738",
       "U+11739", "U+118E0", "U+118E1", "U+118E2", "U+118E3", "U+118E4", "U+118E5",
       "U+118E6", "U+118E7", "U+118E8", "U+118E9", "U+11950", "U+11951", "U+11952",
       "U+11953", "U+11954", "U+11955", "U+11956", "U+11957", "U+11958", "U+11959",
       "U+11C50", "U+11C51", "U+11C52", "U+11C53", "U+11C54", "U+11C55", "U+11C56",
       "U+11C57", "U+11C58", "U+11C59", "U+11D50", "U+11D51", "U+11D52", "U+11D53",
       "U+11D54", "U+11D55", "U+11D56", "U+11D57", "U+11D58", "U+11D59", "U+11DA0",
       "U+11DA1", "U+11DA2", "U+11DA3", "U+11DA4", "U+11DA5", "U+11DA6", "U+11DA7",
       "U+11DA8", "U+11DA9", "U+16A60", "U+16A61", "U+16A62", "U+16A63", "U+16A64",
       "U+16A65", "U+16A66", "U+16A67", "U+16A68", "U+16A69", "U+16AC0", "U+16AC1",
       "U+16AC2", "U+16AC3", "U+16AC4", "U+16AC5", "U+16AC6", "U+16AC7", "U+16AC8",
       "U+16AC9", "U+16B50", "U+16B51", "U+16B52", "U+16B53", "U+16B54", "U+16B55",
       "U+16B56", "U+16B57", "U+16B58", "U+16B59", "U+1D7CE", "U+1D7CF", "U+1D7D0",
       "U+1D7D1", "U+1D7D2", "U+1D7D3", "U+1D7D4", "U+1D7D5", "U+1D7D6", "U+1D7D7",
       "U+1D7D8", "U+1D7D9", "U+1D7DA", "U+1D7DB", "U+1D7DC", "U+1D7DD", "U+1D7DE",
       "U+1D7DF", "U+1D7E0", "U+1D7E1", "U+1D7E2", "U+1D7E3", "U+1D7E4", "U+1D7E5",
       "U+1D7E6", "U+1D7E7", "U+1D7E8", "U+1D7E9", "U+1D7EA", "U+1D7EB", "U+1D7EC",
       "U+1D7ED", "U+1D7EE", "U+1D7EF", "U+1D7F0", "U+1D7F1", "U+1D7F2", "U+1D7F3",
       "U+1D7F4", "U+1D7F5", "U+1D7F6", "U+1D7F7", "U+1D7F8", "U+1D7F9", "U+1D7FA",
       "U+1D7FB", "U+1D7FC", "U+1D7FD", "U+1D7FE", "U+1D7FF", "U+1E140", "U+1E141",
       "U+1E142", "U+1E143", "U+1E144", "U+1E145", "U+1E146", "U+1E147", "U+1E148",
       "U+1E149", "U+1E2F0", "U+1E2F1", "U+1E2F2", "U+1E2F3", "U+1E2F4", "U+1E2F5",
       "U+1E2F6", "U+1E2F7", "U+1E2F8", "U+1E2F9", "U+1E950", "U+1E951", "U+1E952",
       "U+1E953", "U+1E954", "U+1E955", "U+1E956", "U+1E957", "U+1E958", "U+1E959",
       "U+1FBF0", "U+1FBF1", "U+1FBF2", "U+1FBF3", "U+1FBF4", "U+1FBF5", "U+1FBF6",
       "U+1FBF7", "U+1FBF8", "U+1FBF9" >>

\* the characters of the model's date strings in code point order
CharOrder ==
    <<" ", "-", "0", "1", "2", "3", "4", "5", "6", "7", "8", "9">> \o NonAsciiDigits

Ord(c) == CHOOSE k \in 1..Len(CharOrder) : CharOrder[k] = c

\* a < b for two str values: lexicographic on code points
RECURSIVE StrLess(_, _)
StrLess(a, b) ==
    IF b = <<>> THEN FALSE
    ELSE IF a = <<>> THEN TRUE
    ELSE IF Head(a) = Head(b) THEN StrLess(Tail(a), Tail(b))
    ELSE Ord(Head(a)) < Ord(Head(b))

\* a local variable: unassigned (reading it raises UnboundLocalError) or assigned
Unbound(shape) == [bound |-> FALSE, v |-> shape]
Bound(x) == [bound |-> TRUE, v |-> x]

-----------------------------------------------------------------------------
(* Adapter results *)

\* what an adapter returns: [] (not found, or an error), or the publication's
\* dict with its 'citations' list (five keys, so its len is not 0)
NotFound == [found |-> FALSE, citations |-> <<>>]
Found(cits) == [found |-> TRUE, citations |-> cits]

\* len(bundle) == 0
LenIsZero(bundle) == ~bundle.found

\* 'citations' in bundle: a key of the dict; never an element of the list []
HasCitations(bundle) == bundle.found

\* a citation record as the adapters build it
Citation(t, d, p, s) == [title |-> t, doi |-> d, publication_date |-> p, source |-> s]

-----------------------------------------------------------------------------
(* The merge step of get_publications_citations *)

TitleKeyLen == 50

\* the outcome of an expression that raises TypeError
TypeError == <<"TypeError">>

\* cit.get('title', '')[:50]; a title that is None cannot be sliced
TitleKey(cit) == IF cit.title = None THEN TypeError ELSE Prefix(cit.title, TitleKeyLen)

\* cit_doi in seen_dois
InSeen(seen, cit_doi) == \E k \in 1..Len(seen) : seen[k].doi = cit_doi

SeenIndex(seen, cit_doi) == CHOOSE k \in 1..Len(seen) : seen[k].doi = cit_doi

\* SeenInsert with the source test of line 243 left out: the first record seen
\* opens the entry, whatever its source
SeenInsertAnySource(seen, cit) ==
    IF ~InSeen(seen, cit.doi)
    THEN Append(seen, Citation(cit.title, cit.doi, cit.publication_date, cit.source))
    ELSE seen

\* lines 242-249: only an OpenAlex record opens an entry of seen_dois
SeenInsert(seen, cit) ==
    IF ~InSeen(seen, cit.doi) /\ cit.source = "openalex"
    THEN Append(seen, Citation(cit.title, cit.doi, cit.publication_date, cit.source))
    ELSE seen

\* lines 250-254: an OpenAlex record overrides the date of a Semantic Scholar entry
SeenUpdate(seen, cit) ==
    IF InSeen(seen, cit.doi)
    THEN LET k == SeenIndex(seen, cit.doi)
             existing == seen[k]
         IN IF /\ cit.source = "openalex"
               /\ existing.source = "semanticscholar"
               /\ cit.publication_date # None
            THEN [seen EXCEPT ![k].publication_date = cit.publication_date,
                              ![k].source = cit.source]
            ELSE seen
    ELSE seen

\* one iteration of the loop of lines 236-254
SeenStep(seen, cit) ==
    IF ~Truthy(cit.doi) THEN seen
    ELSE SeenUpdate(SeenInsert(seen, cit), cit)

\* lines 235-257: seen_dois after the loop, as list(seen_dois.values())
RECURSIVE SeenDois(_, _)
SeenDois(seen, cits) ==
    IF cits = <<>> THEN seen
    ELSE SeenDois(SeenStep(seen, Head(cits)), Tail(cits))

\* list.remove(x): drops the first element equal to x
RECURSIVE Remove(_, _)
Remove(list, x) ==
    IF list = <<>> THEN <<>>
    ELSE IF Head(list) = x THEN Tail(list)
    ELSE <<Head(list)>> \o Remove(Tail(list), x)

\* line 266: the first element of the list with this title key, as its index, or 0
ExistingIndex(list, key) ==
    IF \E k \in 1..Len(list) : TitleKey(list[k]) = key
    THEN CHOOSE k \in 1..Len(list) :
            /\ TitleKey(list[k]) = key
            /\ \A j \in 1..(k - 1) : TitleKey(list[j]) # key
    ELSE 0

\* TitleOnlyStep with lines 270-273 left out: the first record seen keeps the key
TitleOnlyStepKeepFirst(acc, cit) ==
    IF acc.raised THEN acc
    ELSE IF cit.doi # None /\ cit.doi # EmptyStr THEN acc
    ELSE IF TitleKey(cit) = TypeError THEN [acc EXCEPT !.raised = TRUE]
    ELSE IF TitleKey(cit) = EmptyStr THEN acc
    ELSE IF ExistingIndex(acc.list, TitleKey(cit)) = 0
         THEN [acc EXCEPT !.list = Append(acc.list, cit)]
         ELSE acc

\* one iteration of the loop of lines 261-273 on [raised, list]; slicing a
\* title that is None (line 263) and comparing a date with the None date of
\* the existing record (line 271) raise TypeError
TitleOnlyStep(acc, cit) ==
    IF acc.raised THEN acc
    ELSE IF cit.doi # None /\ cit.doi # EmptyStr THEN acc
    ELSE IF TitleKey(cit) = TypeError THEN [acc EXCEPT !.raised = TRUE]
    ELSE IF TitleKey(cit) = EmptyStr THEN acc
    ELSE LET k == ExistingIndex(acc.list, TitleKey(cit)) IN
         IF k = 0 THEN [acc EXCEPT !.list = Append(acc.list, cit)]
         ELSE IF cit.publication_date = None THEN acc
         ELSE IF acc.list[k].publication_date = None THEN [acc EXCEPT !.raised = TRUE]
         ELSE IF StrLess(cit.publication_date, acc.list[k].publication_date)
              THEN [acc EXCEPT !.list = Append(Remove(acc.list, acc.list[k]), cit)]
              ELSE acc

\* lines 260-273: unique_title_only_citations after the loop
RECURSIVE TitleOnly(_, _)
TitleOnly(acc, cits) ==
    IF cits = <<>> THEN acc
    ELSE TitleOnly(TitleOnlyStep(acc, Head(cits)), Tail(cits))

\* line 275: a title-only record joins unique_citations unless a record with
\* the same title key is already there
RECURSIVE FoldTitleOnly(_, _)
FoldTitleOnly(unique, title_only) ==
    IF title_only = <<>> THEN unique
    ELSE LET cit == Head(title_only) IN
         FoldTitleOnly(
            IF \E k \in 1..Len(unique) : TitleKey(unique[k]) = TitleKey(cit)
            THEN unique ELSE Append(unique, cit),
            Tail(title_only))

\* lines 235-275 on a non-empty all_citations: [raised, unique_citations]; line
\* 275 slices the title of every record of unique_citations for each title-only
\* record, and raises on a title that is None
Deduplicate(cits) ==
    LET unique == SeenDois(<<>>, cits)
        t == TitleOnly([raised |-> FALSE, list |-> <<>>], cits)
    IN IF t.raised THEN [raised |-> TRUE, unique_citations |-> <<>>]
       ELSE IF t.list # <<>> /\ \E k \in 1..Len(unique) : TitleKey(unique[k]) = TypeError
       THEN [raised |-> TRUE, unique_citations |-> <<>>]
       ELSE [raised |-> FALSE, unique_citations |-> FoldTitleOnly(unique, t.list)]

-----------------------------------------------------------------------------
(* datetime.strptime, as filter_citations_by_date uses it *)

\* [0-9]
Digits == <<"0", "1", "2", "3", "4", "5", "6", "7", "8", "9">>

IsAsciiDigit(c) == \E k \in 1..Len(Digits) : Digits[k] = c

\* the characters \d matches in a str pattern, the decimal digits of Unicode
\* 14.0: the set of those of value v is DecimalDigits[v + 1]; a character
\* outside ASCII is written "U+" and its code point
DecimalDigits ==
    <<
       { "0", "U+0660", "U+06F0", "U+07C0", "U+0966", "U+09E6", "U+0A66", "U+0AE6",
         "U+0B66", "U+0BE6", "U+0C66", "U+0CE6", "U+0D66", "U+0DE6", "U+0E50", "U+0ED0",
         "U+0F20", "U+1040", "U+1090", "U+17E0", "U+1810", "U+1946", "U+19D0", "U+1A80",
         "U+1A90", "U+1B50", "U+1BB0", "U+1C40", "U+1C50", "U+A620", "U+A8D0", "U+A900",
         "U+A9D0", "U+A9F0", "U+AA50", "U+ABF0", "U+FF10", "U+104A0", "U+10D30",
         "U+11066", "U+110F0", "U+11136", "U+111D0", "U+112F0", "U+11450", "U+114D0",
         "U+11650", "U+116C0", "U+11730", "U+118E0", "U+11950", "U+11C50", "U+11D50",
         "U+11DA0", "U+16A60", "U+16AC0", "U+16B50", "U+1D7CE", "U+1D7D8", "U+1D7E2",
         "U+1D7EC", "U+1D7F6", "U+1E140", "U+1E2F0", "U+1E950", "U+1FBF0" },
       { "1", "U+0661", "U+06F1", "U+07C1", "U+0967", "U+09E7", "U+0A67", "U+0AE7",
         "U+0B67", "U+0BE7", "U+0C67", "U+0CE7", "U+0D67", "U+0DE7", "U+0E51", "U+0ED1",
         "U+0F21", "U+1041", "U+1091", "U+17E1", "U+1811", "U+1947", "U+19D1", "U+1A81",
         "U+1A91", "U+1B51", "U+1BB1", "U+1C41", "U+1C51", "U+A621", "U+A8D1", "U+A901",
         "U+A9D1", "U+A9F1", "U+AA51", "U+ABF1", "U+FF11", "U+104A1", "U+10D31",
         "U+11067", "U+110F1", "U+11137", "U+111D1", "U+112F1", "U+11451", "U+114D1",
         "U+11651", "U+116C1", "U+11731", "U+118E1", "U+11951", "U+11C51", "U+11D51",
         "U+11DA1", "U+16A61", "U+16AC1", "U+16B51", "U+1D7CF", "U+1D7D9", "U+1D7E3",
         "U+1D7ED", "U+1D7F7", "U+1E141", "U+1E2F1", "U+1E951", "U+1FBF1" },
       { "2", "U+0662", "U+06F2", "U+07C2", "U+0968", "U+09E8", "U+0A68", "U+0AE8",
         "U+0B68", "U+0BE8", "U+0C68", "U+0CE8", "U+0D68", "U+0DE8", "U+0E52", "U+0ED2",
         "U+0F22", "U+1042", "U+1092", "U+17E2", "U+1812", "U+1948", "U+19D2", "U+1A82",
         "U+1A92", "U+1B52", "U+1BB2", "U+1C42", "U+1C52", "U+A622", "U+A8D2", "U+A902",
         "U+A9D2", "U+A9F2", "U+AA52", "U+ABF2", "U+FF12", "U+104A2", "U+10D32",
         "U+11068", "U+110F2", "U+11138", "U+111D2", "U+112F2", "U+11452", "U+114D2",
         "U+11652", "U+116C2", "U+11732", "U+118E2", "U+11952", "U+11C52", "U+11D52",
         "U+11DA2", "U+16A62", "U+16AC2", "U+16B52", "U+1D7D0", "U+1D7DA", "U+1D7E4",
         "U+1D7EE", "U+1D7F8", "U+1E142", "U+1E2F2", "U+1E952", "U+1FBF2" },
       { "3", "U+0663", "U+06F3", "U+07C3", "U+0969", "U+09E9", "U+0A69", "U+0AE9",
         "U+0B69", "U+0BE9", "U+0C69", "U+0CE9", "U+0D69", "U+0DE9", "U+0E53", "U+0ED3",
         "U+0F23", "U+1043", "U+1093", "U+17E3", "U+1813", "U+1949", "U+19D3", "U+1A83",
         "U+1A93", "U+1B53", "U+1BB3", "U+1C43", "U+1C53", "U+A623", "U+A8D3", "U+A903",
         "U+A9D3", "U+A9F3", "U+AA53", "U+ABF3", "U+FF13", "U+104A3", "U+10D33",
         "U+11069", "U+110F3", "U+11139", "U+111D3", "U+112F3", "U+11453", "U+114D3",
         "U+11653", "U+116C3", "U+11733", "U+118E3", "U+11953", "U+11C53", "U+11D53",
         "U+11DA3", "U+16A63", "U+16AC3", "U+16B53", "U+1D7D1", "U+1D7DB", "U+1D7E5",
         "U+1D7EF", "U+1D7F9", "U+1E143", "U+1E2F3", "U+1E953", "U+1FBF3" },
       { "4", "U+0664", "U+06F4", "U+07C4", "U+096A", "U+09EA", "U+0A6A", "U+0AEA",
         "U+0B6A", "U+0BEA", "U+0C6A", "U+0CEA", "U+0D6A", "U+0DEA", "U+0E54", "U+0ED4",
         "U+0F24", "U+1044", "U+1094", "U+17E4", "U+1814", "U+194A", "U+19D4", "U+1A84",
         "U+1A94", "U+1B54", "U+1BB4", "U+1C44", "U+1C54", "U+A624", "U+A8D4", "U+A904",
         "U+A9D4", "U+A9F4", "U+AA54", "U+ABF4", "U+FF14", "U+104A4", "U+10D34",
         "U+1106A", "U+110F4", "U+1113A", "U+111D4", "U+112F4", "U+11454", "U+114D4",
         "U+11654", "U+116C4", "U+11734", "U+118E4", "U+11954", "U+11C54", "U+11D54",
         "U+11DA4", "U+16A64", "U+16AC4", "U+16B54", "U+1D7D2", "U+1D7DC", "U+1D7E6",
         "U+1D7F0", "U+1D7FA", "U+1E144", "U+1E2F4", "U+1E954", "U+1FBF4" },
       { "5", "U+0665", "U+06F5", "U+07C5", "U+096B", "U+09EB", "U+0A6B", "U+0AEB",
         "U+0B6B", "U+0BEB", "U+0C6B", "U+0CEB", "U+0D6B", "U+0DEB", "U+0E55", "U+0ED5",
         "U+0F25", "U+1045", "U+1095", "U+17E5", "U+1815", "U+194B", "U+19D5", "U+1A85",
         "U+1A95", "U+1B55", "U+1BB5", "U+1C45", "U+1C55", "U+A625", "U+A8D5", "U+A905",
         "U+A9D5", "U+A9F5", "U+AA55", "U+ABF5", "U+FF15", "U+104A5", "U+10D35",
         "U+1106B", "U+110F5", "U+1113B", "U+111D5", "U+112F5", "U+11455", "U+114D5",
         "U+11655", "U+116C5", "U+11735", "U+118E5", "U+11955", "U+11C55", "U+11D55",
         "U+11DA5", "U+16A65", "U+16AC5", "U+16B55", "U+1D7D3", "U+1D7DD", "U+1D7E7",
         "U+1D7F1", "U+1D7FB", "U+1E145", "U+1E2F5", "U+1E955", "U+1FBF5" },
       { "6", "U+0666", "U+06F6", "U+07C6", "U+096C", "U+09EC", "U+0A6C", "U+0AEC",
         "U+0B6C", "U+0BEC", "U+0C6C", "U+0CEC", "U+0D6C", "U+0DEC", "U+0E56", "U+0ED6",
         "U+0F26", "U+1046", "U+1096", "U+17E6", "U+1816", "U+194C", "U+19D6", "U+1A86",
         "U+1A96", "U+1B56", "U+1BB6", "U+1C46", "U+1C56", "U+A626", "U+A8D6", "U+A906",
         "U+A9D6", "U+A9F6", "U+AA56", "U+ABF6", "U+FF16", "U+104A6", "U+10D36",
         "U+1106C", "U+110F6", "U+1113C", "U+111D6", "U+112F6", "U+11456", "U+114D6",
         "U+11656", "U+116C6", "U+11736", "U+118E6", "U+11956", "U+11C56", "U+11D56",
         "U+11DA6", "U+16A66", "U+16AC6", "U+16B56", "U+1D7D4", "U+1D7DE", "U+1D7E8",
         "U+1D7F2", "U+1D7FC", "U+1E146", "U+1E2F6", "U+1E956", "U+1FBF6" },
       { "7", "U+0667", "U+06F7", "U+07C7", "U+096D", "U+09ED", "U+0A6D", "U+0AED",
         "U+0B6D", "U+0BED", "U+0C6D", "U+0CED", "U+0D6D", "U+0DED", "U+0E57", "U+0ED7",
         "U+0F27", "U+1047", "U+1097", "U+17E7", "U+1817", "U+194D", "U+19D7", "U+1A87",
         "U+1A97", "U+1B57", "U+1BB7", "U+1C47", "U+1C57", "U+A627", "U+A8D7", "U+A907",
         "U+A9D7", "U+A9F7", "U+AA57", "U+ABF7", "U+FF17", "U+104A7", "U+10D37",
         "U+1106D", "U+110F7", "U+1113D", "U+111D7", "U+112F7", "U+11457", "U+114D7",
         "U+11657", "U+116C7", "U+11737", "U+118E7", "U+11957", "U+11C57", "U+11D57",
         "U+11DA7", "U+16A67", "U+16AC7", "U+16B57", "U+1D7D5", "U+1D7DF", "U+1D7E9",
         "U+1D7F3", "U+1D7FD", "U+1E147", "U+1E2F7", "U+1E957", "U+1FBF7" },
       { "8", "U+0668", "U+06F8", "U+07C8", "U+096E", "U+09EE", "U+0A6E", "U+0AEE",
         "U+0B6E", "U+0BEE", "U+0C6E", "U+0CEE", "U+0D6E", "U+0DEE", "U+0E58", "U+0ED8",
         "U+0F28", "U+1048", "U+1098", "U+17E8", "U+1818", "U+194E", "U+19D8", "U+1A88",
         "U+1A98", "U+1B58", "U+1BB8", "U+1C48", "U+1C58", "U+A628", "U+A8D8", "U+A908",
         "U+A9D8", "U+A9F8", "U+AA58", "U+ABF8", "U+FF18", "U+104A8", "U+10D38",
         "U+1106E", "U+110F8", "U+1113E", "U+111D8", "U+112F8", "U+11458", "U+114D8",
         "U+11658", "U+116C8", "U+11738", "U+118E8", "U+11958", "U+11C58", "U+11D58",
         "U+11DA8", "U+16A68", "U+16AC8", "U+16B58", "U+1D7D6", "U+1D7E0", "U+1D7EA",
         "U+1D7F4", "U+1D7FE", "U+1E148", "U+1E2F8", "U+1E958", "U+1FBF8" },
       { "9", "U+0669", "U+06F9", "U+07C9", "U+096F", "U+09EF", "U+0A6F", "U+0AEF",
         "U+0B6F", "U+0BEF", "U+0C6F", "U+0CEF", "U+0D6F", "U+0DEF", "U+0E59", "U+0ED9",
         "U+0F29", "U+1049", "U+1099", "U+17E9", "U+1819", "U+194F", "U+19D9", "U+1A89",
         "U+1A99", "U+1B59", "U+1BB9", "U+1C49", "U+1C59", "U+A629", "U+A8D9", "U+A909",
         "U+A9D9", "U+A9F9", "U+AA59", "U+ABF9", "U+FF19", "U+104A9", "U+10D39",
         "U+1106F", "U+110F9", "U+1113F", "U+111D9", "U+112F9", "U+11459", "U+114D9",
         "U+11659", "U+116C9", "U+11739", "U+118E9", "U+11959", "U+11C59", "U+11D59",
         "U+11DA9", "U+16A69", "U+16AC9", "U+16B59", "U+1D7D7", "U+1D7E1", "U+1D7EB",
         "U+1D7F5", "U+1D7FF", "U+1E149", "U+1E2F9", "U+1E959", "U+1FBF9" }
    >>

\* \d
IsDigit(c) == IsAsciiDigit(c) \/ \E v \in 1..10 : c \in DecimalDigits[v]

\* int(c) for a decimal digit
DigitValue(c) == (CHOOSE v \in 1..10 : c \in DecimalDigits[v]) - 1

AllDigits(s) == \A k \in 1..Len(s) : IsDigit(s[k])

\* int(s) for a string of digits
RECURSIVE ToInt(_)
ToInt(s) ==
    IF s = <<>> THEN 0
    ELSE 10 * ToInt(SubSeq(s, 1, Len(s) - 1)) + DigitValue(s[Len(s)])

\* '-' in s
HasDash(s) == \E k \in 1..Len(s) : s[k] = "-"

\* s.split('-')
RECURSIVE SplitDash(_, _, _)
SplitDash(s, cur, parts) ==
    IF s = <<>> THEN Append(parts, cur)
    ELSE IF Head(s) = "-" THEN SplitDash(Tail(s), <<>>, Append(parts, cur))
    ELSE SplitDash(Tail(s), Append(cur, Head(s)), parts)

IsLeap(y) == (y % 4 = 0 /\ y % 100 # 0) \/ y % 400 = 0

DaysInMonth(y, m) ==
    IF m = 2 THEN (IF IsLeap(y) THEN 29 ELSE 28)
    ELSE IF m \in {4, 6, 9, 11} THEN 30 ELSE 31

\* a failed parse (ValueError), and a parsed date
Invalid == [ok |-> FALSE, y |-> 0, m |-> 0, d |-> 0]
Date(y, m, d) == [ok |-> TRUE, y |-> y, m |-> m, d |-> d]

\* strptime(s, '%Y'): four decimal digits, a year datetime has
ParseY(s) ==
    IF Len(s) = 4 /\ AllDigits(s) /\ ToInt(s) >= 1 THEN Date(ToInt(s), 1, 1)
    ELSE Invalid

\* what %m matches, 1[0-2]|0[1-9]|[1-9]: one or two of the digits 0-9
IsMonthText(s) == Len(s) \in {1, 2} /\ \A k \in 1..Len(s) : IsAsciiDigit(s[k])

\* what %d matches, 3[0-1]|[1-2]\d|0[1-9]|[1-9]| [1-9]: one or two of the
\* digits 0-9, or 1 or 2 and any decimal digit
IsDayText(s) ==
    \/ Len(s) \in {1, 2} /\ \A k \in 1..Len(s) : IsAsciiDigit(s[k])
    \/ Len(s) = 2 /\ s[1] \in {"1", "2"} /\ IsDigit(s[2])

\* the digits of a day: %d also matches a blank and one of the digits 1-9
DayText(s) ==
    IF Len(s) = 2 /\ s[1] = " " /\ IsAsciiDigit(s[2]) THEN <<s[2]>> ELSE s

\* strptime(s, '%Y-%m-%d'): a year of four decimal digits, a month, a day the
\* month has
ParseYMD(s) ==
    LET split == SplitDash(s, <<>>, <<>>)
        parts == IF Len(split) = 3 THEN [split EXCEPT ![3] = DayText(@)] ELSE split
    IN
    IF /\ Len(parts) = 3
       /\ Len(parts[1]) = 4 /\ AllDigits(parts[1]) /\ ToInt(parts[1]) >= 1
       /\ IsMonthText(parts[2])
       /\ ToInt(parts[2]) \in 1..12
       /\ IsDayText(parts[3])
       /\ ToInt(parts[3]) \in 1..DaysInMonth(ToInt(parts[1]), ToInt(parts[2]))
    THEN Date(ToInt(parts[1]), ToInt(parts[2]), ToInt(parts[3]))
    ELSE Invalid

\* a parser that would read "YYYY-MM" as the first day of that month
CitDateYearMonth(pub_date_str) ==
    IF HasDash(pub_date_str)
    THEN (IF Len(SplitDash(pub_date_str, <<>>, <<>>)) = 2
          THEN ParseYMD(pub_date_str \o <<"-", "0", "1">>)
          ELSE ParseYMD(pub_date_str))
    ELSE ParseY(pub_date_str)

\* lines 308-312: the date a citation's publication_date string stands for
CitDate(pub_date_str) ==
    IF HasDash(pub_date_str) THEN ParseYMD(pub_date_str) ELSE ParseY(pub_date_str)

\* a <= b for two datetime values
DateLeq(a, b) ==
    \/ a.y < b.y
    \/ a.y = b.y /\ a.m < b.m
    \/ a.y = b.y /\ a.m = b.m /\ a.d <= b.d

-----------------------------------------------------------------------------
(* filter_citations_by_date *)

\* lines 303-320 for one citing_list: all_citing_dois after the inner loop, which
\* stops at the first citation dated on or before the cutoff
RECURSIVE ScanCitingList(_, _, _)
ScanCitingList(citing_list, cutoff_date, all_citing_dois) ==
    IF citing_list = <<>> THEN all_citing_dois
    ELSE LET citation == Head(citing_list)
             pub_date_str == citation.publication_date
         IN IF ~Truthy(pub_date_str)
            THEN ScanCitingList(Tail(citing_list), cutoff_date, all_citing_dois)
            ELSE LET cit_date == CitDate(pub_date_str) IN
                 IF ~cit_date.ok
                 THEN ScanCitingList(Tail(citing_list), cutoff_date, all_citing_dois)
                 ELSE IF DateLeq(cit_date, cutoff_date)
                      THEN (IF Truthy(citation.doi)
                            THEN all_citing_dois \cup {citation.doi}
                            ELSE all_citing_dois)
                      ELSE ScanCitingList(Tail(citing_list), cutoff_date, all_citing_dois)

\* lines 301-320: all_citing_dois after the loop over citations_output.items()
RECURSIVE ScanOutput(_, _, _)
ScanOutput(entries, cutoff_date, all_citing_dois) ==
    IF entries = <<>> THEN all_citing_dois
    ELSE ScanOutput(Tail(entries), cutoff_date,
                    ScanCitingList(Head(entries).cits, cutoff_date, all_citing_dois))

\* filter_citations_by_date(citations_output, date_str), date_str a valid date
filter_citations_by_date(citations_output, date_str) ==
    LET cutoff_date == ParseYMD(date_str) IN
    [num_original_pubs |-> Len(citations_output),
     num_citing_pubs |-> Cardinality(ScanOutput(citations_output, cutoff_date, {}))]

-----------------------------------------------------------------------------
(* The values the model draws its inputs from *)

SeqsUpTo(S, n) == UNION {[1..k -> S] : k \in 0..n}

\* DOIs: two citing works, the first also in another letter case with a
\* leading blank, and a tracked publication
DoiX == <<"1", "0", ".", "1", "/", "X">>
DoiXvar == <<" ", "1", "0", ".", "1", "/", "x">>
DoiY == <<"1", "0", ".", "1", "/", "Y">>
DoiA == <<"1", "0", ".", "1", "/", "A">>

\* titles: two that differ only after their first 50 characters, a short one,
\* and the word the loop looks for in TITLES
TitleA == [k \in 1..TitleKeyLen |-> "a"] \o <<"b">>
TitleB == [k \in 1..TitleKeyLen |-> "a"] \o <<"c">>
Foo == <<"F", "o", "o">>
TitleWord == <<"t", "i", "t", "l", "e">>

D2021 == <<"2", "0", "2", "1">>
\* the year 2021 with an Arabic-Indic last digit
D2021_ArabicIndic == <<"2", "0", "2", "U+0661">>
D2021_06 == <<"2", "0", "2", "1", "-", "0", "6">>
D2021_06_15 == <<"2", "0", "2", "1", "-", "0", "6", "-", "1", "5">>
D2021_06_Blank5 == <<"2", "0", "2", "1", "-", "0", "6", "-", " ", "5">>
D2022_01_01 == <<"2", "0", "2", "2", "-", "0", "1", "-", "0", "1">>
D2022_06_01 == <<"2", "0", "2", "2", "-", "0", "6", "-", "0", "1">>
D2022_12_31 == <<"2", "0", "2", "2", "-", "1", "2", "-", "3", "1">>
D2023_01_01 == <<"2", "0", "2", "3", "-", "0", "1", "-", "0", "1">>
D2023_06_01 == <<"2", "0", "2", "3", "-", "0", "6", "-", "0", "1">>

\* the tracked publications a configuration may list ('' for a missing field)
Pubs ==
    { [doi |-> DoiA, title |-> Foo],
      [doi |-> EmptyStr, title |-> Foo],
      [doi |-> EmptyStr, title |-> TitleWord],
      [doi |-> EmptyStr, title |-> EmptyStr] }

\* the report dates the sheet may hold
Cutoffs == {D2021_06_15, D2022_12_31, D2023_06_01}

\* the citations an adapter may return during a run
RunCitations(source) ==
    IF source = "openalex"
    THEN { Citation(Foo, DoiX, D2022_01_01, source),
           Citation(TitleA, None, D2023_01_01, source) }
    ELSE { Citation(Foo, DoiX, D2022_06_01, source),
           Citation(TitleB, DoiY, D2023_01_01, source) }

\* what one adapter call may return during a run
Responses(source) ==
    {NotFound} \cup {Found(c) : c \in SeqsUpTo(RunCitations(source), MaxCits)}

-----------------------------------------------------------------------------
(* The run: main and get_publications_citations *)

\* lines 12-13
TITLES == [k \in 1..Len(TRANSLATOR_pubs) |-> TRANSLATOR_pubs[k].title]
DOIS == [k \in 1..Len(TRANSLATOR_pubs) |-> TRANSLATOR_pubs[k].doi]

\* x in list
Contains(list, x) == \E k \in 1..Len(list) : list[k] = x

\* d[key] = value on a dict kept as its entries in insertion order
DictSet(d, key, value) ==
    IF \E k \in 1..Len(d) : d[k].key = key
    THEN [k \in 1..Len(d) |-> IF d[k].key = key THEN [key |-> key, cits |-> value] ELSE d[k]]
    ELSE Append(d, [key |-> key, cits |-> value])

\* the loop goes on with the next publication, or ends
\* a loop that would persist the mapping after each publication
AfterIterationWriteEach(n) == IF n > Len(TRANSLATOR_pubs) \/ n > 1 THEN "write" ELSE "fetch"

AfterIteration(n) == IF n > Len(TRANSLATOR_pubs) THEN "write" ELSE "fetch"

NoFile == [opens |-> 0, dumped |-> FALSE, content |-> <<>>]
NoRuns == [ab |-> [done |-> FALSE, raised |-> FALSE, unique_citations |-> <<>>],
           ba |-> [done |-> FALSE, raised |-> FALSE, unique_citations |-> <<>>]]

Init ==
    /\ TRANSLATOR_pubs \in SeqsUpTo(Pubs, MaxPubs)
    /\ pending_dates \in SeqsUpTo(Cutoffs, MaxDates)
    /\ i = 1
    /\ pc = AfterIteration(1)
    /\ openalex_cits = Unbound(NotFound)
    /\ semanticscholar_cits = Unbound(NotFound)
    /\ all_citations = Unbound(<<>>)
    /\ all_citing_by_doi = <<>>
    /\ output = Unbound(<<>>)
    /\ snapshot_file = NoFile
    /\ calls = <<>>
    /\ outs = <<>>
    /\ merge_runs = NoRuns

\* lines 198-202: the publication has a DOI
FetchByDoi ==
    /\ pc = "fetch"
    /\ DOIS[i] # EmptyStr
    /\ \E a \in Responses("openalex"), b \in Responses("semanticscholar") :
          /\ openalex_cits' = Bound(a)
          /\ semanticscholar_cits' = Bound(b)
          /\ calls' = calls \o
                << [pub |-> i, fn |-> "get_citations_openalex_from_doi", arg |-> DOIS[i],
                    found |-> a.found],
                   [pub |-> i, fn |-> "get_citations_semanticscholar_from_doi", arg |-> DOIS[i],
                    found |-> b.found] >>
    /\ pc' = "combine"
    /\ UNCHANGED <<TRANSLATOR_pubs, pending_dates, i, all_citations, all_citing_by_doi,
                   output, snapshot_file, outs, merge_runs>>

\* lines 204-207: no DOI, and the string 'title' is one of TITLES
FetchByTitle ==
    /\ pc = "fetch"
    /\ DOIS[i] = EmptyStr
    /\ Contains(TITLES, TitleWord)
    /\ \E a \in Responses("openalex"), b \in Responses("semanticscholar") :
          /\ openalex_cits' = Bound(a)
          /\ semanticscholar_cits' = Bound(b)
          /\ calls' = calls \o
                << [pub |-> i, fn |-> "get_citations_openalex_from_title", arg |-> TITLES[i],
                    found |-> a.found],
                   [pub |-> i, fn |-> "get_citations_semanticscholar_from_title", arg |-> TITLES[i],
                    found |-> b.found] >>
    /\ pc' = "combine"
    /\ UNCHANGED <<TRANSLATOR_pubs, pending_dates, i, all_citations, all_citing_by_doi,
                   output, snapshot_file, outs, merge_runs>>

\* lines 198-207: no DOI, and 'title' is not one of TITLES: neither branch runs
\* and the locals keep what they held
FetchNothing ==
    /\ pc = "fetch"
    /\ DOIS[i] = EmptyStr
    /\ ~Contains(TITLES, TitleWord)
    /\ pc' = "combine"
    /\ UNCHANGED <<TRANSLATOR_pubs, pending_dates, i, openalex_cits, semanticscholar_cits,
                   all_citations, all_citing_by_doi, output, snapshot_file, calls, outs,
                   merge_runs>>

\* line 211 in the first iterations, the locals never assigned: UnboundLocalError
CombineUnbound ==
    /\ pc = "combine"
    /\ ~openalex_cits.bound \/ ~semanticscholar_cits.bound
    /\ pc' = "raised"
    /\ UNCHANGED <<TRANSLATOR_pubs, pending_dates, i, openalex_cits, semanticscholar_cits,
                   all_citations, all_citing_by_doi, output, snapshot_file, calls, outs,
                   merge_runs>>

\* lines 211-213: both results empty: continue
NoCitations ==
    /\ pc = "combine"
    /\ openalex_cits.bound /\ semanticscholar_cits.bound
    /\ LenIsZero(openalex_cits.v) /\ LenIsZero(semanticscholar_cits.v)
    /\ i' = i + 1
    /\ pc' = AfterIteration(i + 1)
    /\ UNCHANGED <<TRANSLATOR_pubs, pending_dates, openalex_cits, semanticscholar_cits,
                   all_citations, all_citing_by_doi, output, snapshot_file, calls, outs,
                   merge_runs>>

\* lines 215-228: all_citations after the elif chain
Combined(oa, ss, prev) ==
    IF LenIsZero(oa) /\ ~LenIsZero(ss)
    THEN (IF HasCitations(ss) THEN Bound(ss.citations) ELSE prev)
    ELSE IF LenIsZero(ss) /\ ~LenIsZero(oa)
    THEN (IF HasCitations(oa) THEN Bound(oa.citations) ELSE prev)
    ELSE IF HasCitations(oa) /\ HasCitations(ss) THEN Bound(oa.citations \o ss.citations)
    ELSE IF HasCitations(oa) /\ ~HasCitations(ss) THEN Bound(oa.citations)
    ELSE IF ~HasCitations(oa) /\ HasCitations(ss) THEN Bound(ss.citations)
    ELSE prev

\* lines 215-281: combine, deduplicate, record under the publication's DOI
CombineAndMerge ==
    /\ pc = "combine"
    /\ openalex_cits.bound /\ semanticscholar_cits.bound
    /\ ~(LenIsZero(openalex_cits.v) /\ LenIsZero(semanticscholar_cits.v))
    /\ LET cits == Combined(openalex_cits.v, semanticscholar_cits.v, all_citations)
           merged == Deduplicate(cits.v)
       IN /\ all_citations' = cits
          /\ IF ~cits.bound \/ (cits.v # <<>> /\ merged.raised)
             THEN /\ pc' = "raised"
                  /\ UNCHANGED <<i, all_citing_by_doi, output>>
             ELSE /\ all_citing_by_doi' =
                        IF cits.v # <<>>
                        THEN DictSet(all_citing_by_doi, DOIS[i], merged.unique_citations)
                        ELSE all_citing_by_doi
                  /\ output' = Bound(all_citing_by_doi')
                  /\ i' = i + 1
                  /\ pc' = AfterIteration(i + 1)
    /\ UNCHANGED <<TRANSLATOR_pubs, pending_dates, openalex_cits, semanticscholar_cits,
                   snapshot_file, calls, outs, merge_runs>>

\* lines 284-287: open the file for writing (which empties it), dump output
WriteSnapshot ==
    /\ pc = "write"
    /\ IF output.bound
       THEN /\ snapshot_file' = [opens |-> snapshot_file.opens + 1, dumped |-> TRUE,
                                 content |-> output.v]
            /\ pc' = "aggregate"
       ELSE /\ snapshot_file' = [opens |-> snapshot_file.opens + 1, dumped |-> FALSE,
                                 content |-> <<>>]
            /\ pc' = "raised"
    /\ UNCHANGED <<TRANSLATOR_pubs, pending_dates, i, openalex_cits, semanticscholar_cits,
                   all_citations, all_citing_by_doi, output, calls, outs, merge_runs>>

\* lines 345-348: the counts for the next pending date are computed and printed;
\* init.write_stats_for_columns then gets data_row, a number, where it iterates
\* pending_columns, and raises TypeError
Aggregate ==
    /\ pc = "aggregate"
    /\ Len(outs) < Len(pending_dates)
    /\ LET date_str == pending_dates[Len(outs) + 1] IN
          outs' = Append(outs, [date_str |-> date_str,
                                out |-> filter_citations_by_date(output.v, date_str)])
    /\ pc' = "raised"
    /\ UNCHANGED <<TRANSLATOR_pubs, pending_dates, i, openalex_cits, semanticscholar_cits,
                   all_citations, all_citing_by_doi, output, snapshot_file, calls, merge_runs>>

\* line 351: no pending date is left
Finish ==
    /\ pc = "aggregate"
    /\ Len(outs) = Len(pending_dates)
    /\ pc' = "done"
    /\ UNCHANGED <<TRANSLATOR_pubs, pending_dates, i, openalex_cits, semanticscholar_cits,
                   all_citations, all_citing_by_doi, output, snapshot_file, calls, outs,
                   merge_runs>>

\* lines 195-281: the run is interrupted inside the loop where no local has
\* changed since the last step: in the OpenAlex call, in a print of lines 199,
\* 205, 212, or between two statements (KeyboardInterrupt is not an Exception,
\* so no handler catches it)
InterruptLoop ==
    /\ pc \in {"fetch", "combine"}
    /\ pc' = "raised"
    /\ UNCHANGED <<TRANSLATOR_pubs, pending_dates, i, openalex_cits, semanticscholar_cits,
                   all_citations, all_citing_by_doi, output, snapshot_file, calls, outs,
                   merge_runs>>

\* lines 202, 207: the run is interrupted in the Semantic Scholar call, after
\* the OpenAlex call of the same publication has returned
InterruptSemanticScholarCall ==
    /\ pc = "fetch"
    /\ DOIS[i] # EmptyStr \/ Contains(TITLES, TitleWord)
    /\ \E a \in Responses("openalex") :
          /\ openalex_cits' = Bound(a)
          /\ calls' = Append(calls,
                IF DOIS[i] # EmptyStr
                THEN [pub |-> i, fn |-> "get_citations_openalex_from_doi", arg |-> DOIS[i],
                      found |-> a.found]
                ELSE [pub |-> i, fn |-> "get_citations_openalex_from_title", arg |-> TITLES[i],
                      found |-> a.found])
    /\ pc' = "raised"
    /\ UNCHANGED <<TRANSLATOR_pubs, pending_dates, i, semanticscholar_cits, all_citations,
                   all_citing_by_doi, output, snapshot_file, outs, merge_runs>>

\* lines 277-280: the run is interrupted after line 277 recorded the list and
\* before line 281 assigns output, as while line 279 prints the count
InterruptFoundPrint ==
    /\ pc = "combine"
    /\ openalex_cits.bound /\ semanticscholar_cits.bound
    /\ ~(LenIsZero(openalex_cits.v) /\ LenIsZero(semanticscholar_cits.v))
    /\ LET cits == Combined(openalex_cits.v, semanticscholar_cits.v, all_citations)
           merged == Deduplicate(cits.v)
       IN /\ cits.bound
          /\ cits.v # <<>>
          /\ ~merged.raised
          /\ all_citations' = cits
          /\ all_citing_by_doi' = DictSet(all_citing_by_doi, DOIS[i], merged.unique_citations)
    /\ pc' = "raised"
    /\ UNCHANGED <<TRANSLATOR_pubs, pending_dates, i, openalex_cits, semanticscholar_cits,
                   output, snapshot_file, calls, outs, merge_runs>>

\* lines 215-276: the run is interrupted after all_citations was assigned and
\* before line 277 records the list
InterruptCombined ==
    /\ pc = "combine"
    /\ openalex_cits.bound /\ semanticscholar_cits.bound
    /\ ~(LenIsZero(openalex_cits.v) /\ LenIsZero(semanticscholar_cits.v))
    /\ LET cits == Combined(openalex_cits.v, semanticscholar_cits.v, all_citations)
       IN /\ cits.bound
          /\ all_citations' = cits
    /\ pc' = "raised"
    /\ UNCHANGED <<TRANSLATOR_pubs, pending_dates, i, openalex_cits, semanticscholar_cits,
                   all_citing_by_doi, output, snapshot_file, calls, outs, merge_runs>>

\* line 281: the run is interrupted after output was assigned and before the
\* loop goes on to the next publication
InterruptAfterOutput ==
    /\ pc = "combine"
    /\ openalex_cits.bound /\ semanticscholar_cits.bound
    /\ ~(LenIsZero(openalex_cits.v) /\ LenIsZero(semanticscholar_cits.v))
    /\ LET cits == Combined(openalex_cits.v, semanticscholar_cits.v, all_citations)
           merged == Deduplicate(cits.v)
       IN /\ cits.bound
          /\ ~(cits.v # <<>> /\ merged.raised)
          /\ all_citations' = cits
          /\ all_citing_by_doi' =
                IF cits.v # <<>>
                THEN DictSet(all_citing_by_doi, DOIS[i], merged.unique_citations)
                ELSE all_citing_by_doi
          /\ output' = Bound(all_citing_by_doi')
    /\ pc' = "raised"
    /\ UNCHANGED <<TRANSLATOR_pubs, pending_dates, i, openalex_cits, semanticscholar_cits,
                   snapshot_file, calls, outs, merge_runs>>

\* line 284: the run is interrupted in open(), before the file is touched
InterruptOpen ==
    /\ pc = "write"
    /\ pc' = "raised"
    /\ UNCHANGED <<TRANSLATOR_pubs, pending_dates, i, openalex_cits, semanticscholar_cits,
                   all_citations, all_citing_by_doi, output, snapshot_file, calls, outs,
                   merge_runs>>

\* line 285: the run is interrupted in json.dump: the file was opened, which
\* emptied it, and does not hold the whole of output
InterruptDump ==
    /\ pc = "write"
    /\ output.bound
    /\ snapshot_file' = [opens |-> snapshot_file.opens + 1, dumped |-> FALSE,
                         content |-> <<>>]
    /\ pc' = "raised"
    /\ UNCHANGED <<TRANSLATOR_pubs, pending_dates, i, openalex_cits, semanticscholar_cits,
                   all_citations, all_citing_by_doi, output, calls, outs, merge_runs>>

\* lines 285-287: the run is interrupted after json.dump has written the whole
\* of output: while the file is closed, or before get_publications_citations
\* returns
InterruptAfterDump ==
    /\ pc = "write"
    /\ output.bound
    /\ snapshot_file' = [opens |-> snapshot_file.opens + 1, dumped |-> TRUE,
                         content |-> output.v]
    /\ pc' = "raised"
    /\ UNCHANGED <<TRANSLATOR_pubs, pending_dates, i, openalex_cits, semanticscholar_cits,
                   all_citations, all_citing_by_doi, output, calls, outs, merge_runs>>

\* lines 344-351: the run is interrupted in main after the snapshot was
\* written: before line 346, in filter_citations_by_date, or in the print of
\* line 351
InterruptAggregation ==
    /\ pc = "aggregate"
    /\ pc' = "raised"
    /\ UNCHANGED <<TRANSLATOR_pubs, pending_dates, i, openalex_cits, semanticscholar_cits,
                   all_citations, all_citing_by_doi, output, snapshot_file, calls, outs,
                   merge_runs>>

Next ==
    \/ FetchByDoi
    \/ FetchByTitle
    \/ FetchNothing
    \/ CombineUnbound
    \/ NoCitations
    \/ CombineAndMerge
    \/ WriteSnapshot
    \/ Aggregate
    \/ Finish
    \/ InterruptLoop
    \/ InterruptSemanticScholarCall
    \/ InterruptFoundPrint
    \/ InterruptOpen
    \/ InterruptDump
    \/ InterruptAfterDump
    \/ InterruptAggregation
    \/ InterruptCombined
    \/ InterruptAfterOutput

Spec == Init /\ [][Next]_vars

-----------------------------------------------------------------------------
(* The merge step on its own: lines 233-275 applied to the concatenation of   *)
(* the two providers' citation lists, in both orders                          *)

\* the citations one provider may return: with a DOI (in two spellings), and
\* without one (titles sharing their first 50 characters, dated or not)
\* the dates of a provider's DOI-less records: OpenAlex hands on the string it
\* received (line 177), Semantic Scholar writes strftime('%Y-%m-%d') or None
\* (lines 20-21)
SourceDates(source) ==
    IF source = "openalex" THEN {None, D2021, D2021_06_15, D2022_01_01}
    ELSE {None, D2021_06_15, D2022_01_01}

MergeCitations(source) ==
    { Citation(t, d, p, source) :
        t \in {TitleA, Foo}, d \in {DoiX, DoiXvar}, p \in {D2021_06_15, D2022_01_01} }
    \cup { Citation(Foo, DoiX, None, source) }
    \cup { Citation(t, None, p, source) :
        t \in {TitleA, TitleB}, p \in SourceDates(source) }
    \cup { Citation(EmptyStr, None, D2022_01_01, source),
           Citation(TitleA, EmptyStr, D2021_06_15, source) }
    \cup (IF source = "semanticscholar"
          THEN { Citation(None, None, D2021_06_15, source) } ELSE {})

MergeInit ==
    /\ TRANSLATOR_pubs = <<>>
    /\ pending_dates = <<>>
    /\ i = 1
    /\ pc = "merge"
    /\ \E a \in SeqsUpTo(MergeCitations("openalex"), MaxCits) :
         \E b \in SeqsUpTo(MergeCitations("semanticscholar"), MaxCits - Len(a)) :
            /\ openalex_cits = Bound(Found(a))
            /\ semanticscholar_cits = Bound(Found(b))
    /\ all_citations = Unbound(<<>>)
    /\ all_citing_by_doi = <<>>
    /\ output = Unbound(<<>>)
    /\ snapshot_file = NoFile
    /\ calls = <<>>
    /\ outs = <<>>
    /\ merge_runs = NoRuns

\* lines 233-275 on cits: the deduplicated list, or the exception
MergeRun(cits) ==
    LET merged == IF cits # <<>> THEN Deduplicate(cits)
                  ELSE [raised |-> FALSE, unique_citations |-> <<>>]
    IN [done |-> TRUE, raised |-> merged.raised, unique_citations |-> merged.unique_citations]

\* line 224 and the merge: OpenAlex's citations first
MergeConcatenation ==
    /\ pc = "merge"
    /\ ~merge_runs.ab.done
    /\ all_citations' = Bound(openalex_cits.v.citations \o semanticscholar_cits.v.citations)
    /\ merge_runs' = [merge_runs EXCEPT !.ab = MergeRun(all_citations'.v)]
    /\ UNCHANGED <<TRANSLATOR_pubs, pending_dates, pc, i, openalex_cits, semanticscholar_cits,
                   all_citing_by_doi, output, snapshot_file, calls, outs>>

\* the same merge on the other concatenation: Semantic Scholar's citations first
MergeSwapped ==
    /\ pc = "merge"
    /\ ~merge_runs.ba.done
    /\ all_citations' = Bound(semanticscholar_cits.v.citations \o openalex_cits.v.citations)
    /\ merge_runs' = [merge_runs EXCEPT !.ba = MergeRun(all_citations'.v)]
    /\ UNCHANGED <<TRANSLATOR_pubs, pending_dates, pc, i, openalex_cits, semanticscholar_cits,
                   all_citing_by_doi, output, snapshot_file, calls, outs>>

MergeNext == MergeConcatenation \/ MergeSwapped

MergeSpec == MergeInit /\ [][MergeNext]_vars

-----------------------------------------------------------------------------
(* filter_citations_by_date on its own: a snapshot, and cutoff dates in any   *)
(* order                                                                      *)

\* the citations of a snapshot: the deduplicated lists the merge step produces
\* from what OpenAlex may return for a publication
FilterCitations ==
    { Citation(Foo, d, p, "openalex") :
        d \in {DoiX, DoiY}, p \in {D2021, D2021_06, D2022_06_01, D2023_01_01} }
    \cup { Citation(TitleA, None, p, "openalex") :
        p \in {D2021, D2021_06, D2022_06_01, D2023_01_01} }
    \cup { Citation(Foo, DoiX, None, "openalex"),
           Citation(Foo, DoiY, D2021_06_Blank5, "openalex"),
           Citation(Foo, DoiY, D2021_ArabicIndic, "openalex") }

CitingLists ==
    { Deduplicate(c).unique_citations :
        c \in {x \in SeqsUpTo(FilterCitations, MaxCits) : x # <<>> /\ ~Deduplicate(x).raised} }

\* the keys of a snapshot, in the order of the loop
SnapshotKeys == <<DoiA, EmptyStr, DoiY>>

Snapshots ==
    UNION { { [k \in 1..n |-> [key |-> SnapshotKeys[k], cits |-> f[k]]] :
                f \in [1..n -> CitingLists] } : n \in 0..Min(MaxPubs, Len(SnapshotKeys)) }
    \cup { << [key |-> SnapshotKeys[2], cits |-> c] >> : c \in CitingLists }

FilterInit ==
    /\ TRANSLATOR_pubs = <<>>
    /\ pending_dates = <<>>
    /\ i = 1
    /\ pc = "filter"
    /\ openalex_cits = Unbound(NotFound)
    /\ semanticscholar_cits = Unbound(NotFound)
    /\ all_citations = Unbound(<<>>)
    /\ all_citing_by_doi = <<>>
    /\ \E snapshot \in Snapshots : output = Bound(snapshot)
    /\ snapshot_file = NoFile
    /\ calls = <<>>
    /\ outs = <<>>
    /\ merge_runs = NoRuns

\* line 346 for some cutoff date
FilterApply ==
    /\ pc = "filter"
    /\ Len(outs) < MaxDates
    /\ \E date_str \in Cutoffs :
          outs' = Append(outs, [date_str |-> date_str,
                                out |-> filter_citations_by_date(output.v, date_str)])
    /\ UNCHANGED <<TRANSLATOR_pubs, pending_dates, pc, i, openalex_cits, semanticscholar_cits,
                   all_citations, all_citing_by_doi, output, snapshot_file, calls, merge_runs>>

FilterNext == FilterApply

FilterSpec == FilterInit /\ [][FilterNext]_vars

-----------------------------------------------------------------------------
(* Vocabulary of the properties *)

UpperCase == <<"A", "B", "C", "D", "E", "F", "G", "H", "I", "J", "K", "L", "M",
               "N", "O", "P", "Q", "R", "S", "T", "U", "V", "W", "X", "Y", "Z">>
LowerCase == <<"a", "b", "c", "d", "e", "f", "g", "h", "i", "j", "k", "l", "m",
               "n", "o", "p", "q", "r", "s", "t", "u", "v", "w", "x", "y", "z">>

LowerChar(c) ==
    IF \E k \in 1..Len(UpperCase) : UpperCase[k] = c
    THEN LowerCase[CHOOSE k \in 1..Len(UpperCase) : UpperCase[k] = c]
    ELSE c

RECURSIVE TrimLeft(_)
TrimLeft(s) == IF s # <<>> /\ Head(s) = " " THEN TrimLeft(Tail(s)) ELSE s

RECURSIVE TrimRight(_)
TrimRight(s) ==
    IF s # <<>> /\ s[Len(s)] = " " THEN TrimRight(SubSeq(s, 1, Len(s) - 1)) ELSE s

\* the dedup key of a DOI: letter case and surrounding blanks ignored
NormalizedDoi(doi) == [k \in 1..Len(TrimRight(TrimLeft(doi))) |->
                          LowerChar(TrimRight(TrimLeft(doi))[k])]

HasDoi(cit) == Truthy(cit.doi)

\* a citation counts for a cutoff: it has a date that parses, on or before it
OnOrBefore(cit, date_str) ==
    /\ Truthy(cit.publication_date)
    /\ CitDate(cit.publication_date).ok
    /\ DateLeq(CitDate(cit.publication_date), ParseYMD(date_str))

Range(seq) == {seq[k] : k \in 1..Len(seq)}

\* the snapshot's publications that qualify for a cutoff
QualifyingPubs(snapshot, date_str) ==
    {k \in 1..Len(snapshot) : \E c \in Range(snapshot[k].cits) : OnOrBefore(c, date_str)}

\* the DOIs of the snapshot's citations that count for a cutoff
CitingDois(snapshot, date_str) ==
    UNION { {c.doi : c \in {x \in Range(snapshot[k].cits) : HasDoi(x) /\ OnOrBefore(x, date_str)}} :
            k \in 1..Len(snapshot) }

\* the two merge runs with their inputs
RunInputs ==
    << [run |-> merge_runs.ab,
        input |-> openalex_cits.v.citations \o semanticscholar_cits.v.citations],
       [run |-> merge_runs.ba,
        input |-> semanticscholar_cits.v.citations \o openalex_cits.v.citations] >>

DoneRuns == {r \in Range(RunInputs) : r.run.done}

\* the runs that are over and whose input records all have a title
TitledRuns == {r \in DoneRuns : \A k \in 1..Len(r.input) : r.input[k].title # None}

\* the records of a list with a given DOI key, as indices
WithDoiKey(list, key) ==
    {k \in 1..Len(list) : HasDoi(list[k]) /\ NormalizedDoi(list[k].doi) = key}

\* the records of a list with a given title key, as indices
WithTitleKey(list, key) == {k \in 1..Len(list) : TitleKey(list[k]) = key}

-----------------------------------------------------------------------------
(* filter_citations_by_date: C1, C2, C3 (under FilterSpec) *)

\* C1: num_original_pubs is the number of tracked publications of the snapshot
\* with at least one citation whose normalized date is on or before the cutoff.
\* The code returns len(citations_output) whatever the cutoff.
C1_OriginalPubsQualify ==
    \A k \in 1..Len(outs) :
        outs[k].out.num_original_pubs =
            Cardinality(QualifyingPubs(output.v, outs[k].date_str))

\* C2: num_citing_pubs is the number of distinct DOIs among all citations, of
\* all publications, dated on or before the cutoff.  The code stops at the
\* first such citation of each publication.
C2_CitingPubsAllDois ==
    \A k \in 1..Len(outs) :
        outs[k].out.num_citing_pubs =
            Cardinality(CitingDois(output.v, outs[k].date_str))

\* C3: for two cutoffs d1 <= d2 over the same snapshot, both counts for d1 are
\* at most those for d2.
C3_Monotonic ==
    \A j, k \in 1..Len(outs) :
        DateLeq(ParseYMD(outs[j].date_str), ParseYMD(outs[k].date_str)) =>
            /\ outs[j].out.num_original_pubs <= outs[k].out.num_original_pubs
            /\ outs[j].out.num_citing_pubs <= outs[k].out.num_citing_pubs

-----------------------------------------------------------------------------
(* The merge step: C4..C8 (under MergeSpec) *)

\* C4: for every DOI key with no OpenAlex record in the concatenated input, the
\* first-seen Semantic Scholar record with that DOI is in the merged output.
C4_ProviderBStands ==
    \A r \in DoneRuns :
        \A k \in 1..Len(r.input) :
            LET cit == r.input[k] IN
            ( /\ HasDoi(cit)
              /\ \A j \in WithDoiKey(r.input, NormalizedDoi(cit.doi)) :
                    /\ r.input[j].source = "semanticscholar"
                    /\ j >= k )
            => cit \in Range(r.run.unique_citations)

\* the DOI keys that exactly one OpenAlex record and exactly one Semantic
\* Scholar record of the input have, the two with different dates, as the pairs
\* of their indices
PriorityPairs(input) ==
    { <<a, b>> \in (1..Len(input)) \X (1..Len(input)) :
        /\ HasDoi(input[a]) /\ HasDoi(input[b])
        /\ input[a].source = "openalex" /\ input[b].source = "semanticscholar"
        /\ NormalizedDoi(input[a].doi) = NormalizedDoi(input[b].doi)
        /\ WithDoiKey(input, NormalizedDoi(input[a].doi)) = {a, b}
        /\ input[a].publication_date # input[b].publication_date }

\* C5: one OpenAlex and one Semantic Scholar record sharing a DOI, with
\* different dates: a merge that completes holds exactly one record for that
\* DOI, with the date and the source of the OpenAlex record, in either input order.
C5_SourcePriority ==
    \A r \in DoneRuns :
        \A p \in PriorityPairs(r.input) :
            LET key == NormalizedDoi(r.input[p[1]].doi)
                kept == WithDoiKey(r.run.unique_citations, key)
            IN ~r.run.raised =>
                /\ Cardinality(kept) = 1
                /\ \A k \in kept :
                      /\ r.run.unique_citations[k].publication_date = r.input[p[1]].publication_date
                      /\ r.run.unique_citations[k].source = "openalex"
                      /\ r.run.unique_citations[k].doi = r.input[p[1]].doi

\* C5 witness: the Semantic Scholar record came first in the input, and the
\* merged list is the OpenAlex record with its own date.
C5_Witness ==
    /\ merge_runs.ba.done /\ ~merge_runs.ba.raised
    /\ Len(RunInputs[2].input) = 2
    /\ <<2, 1>> \in PriorityPairs(RunInputs[2].input)
    /\ RunInputs[2].input[1].publication_date = D2021_06_15
    /\ RunInputs[2].input[2].publication_date = D2022_01_01
    /\ merge_runs.ba.unique_citations = <<RunInputs[2].input[2]>>

\* C6: two records whose DOIs are equal after normalization merge into exactly
\* one output record, and the merged list never holds two records with equal
\* normalized DOIs.
C6_NormalizedDoiDedup ==
    \A r \in DoneRuns :
        ~r.run.raised =>
            /\ \A j, k \in 1..Len(r.input) :
                  ( /\ j # k
                    /\ HasDoi(r.input[j]) /\ HasDoi(r.input[k])
                    /\ NormalizedDoi(r.input[j].doi) = NormalizedDoi(r.input[k].doi) )
                  => Cardinality(WithDoiKey(r.run.unique_citations,
                                            NormalizedDoi(r.input[j].doi))) = 1
            /\ \A j, k \in 1..Len(r.run.unique_citations) :
                  ( /\ j # k
                    /\ HasDoi(r.run.unique_citations[j])
                    /\ HasDoi(r.run.unique_citations[k]) )
                  => NormalizedDoi(r.run.unique_citations[j].doi)
                       # NormalizedDoi(r.run.unique_citations[k].doi)

\* C7: the merge of A+B and the merge of B+A end the same way with the same set
\* of records.
C7_OrderIndependent ==
    (merge_runs.ab.done /\ merge_runs.ba.done) =>
        /\ merge_runs.ab.raised = merge_runs.ba.raised
        /\ Range(merge_runs.ab.unique_citations) = Range(merge_runs.ba.unique_citations)

\* two DOI-less records that alone share a non-empty title key, with dates that
\* parse to different days: <<earlier, later>> as indices of the input
TitlePairs(input) ==
    { <<e, l>> \in (1..Len(input)) \X (1..Len(input)) :
        /\ ~HasDoi(input[e]) /\ ~HasDoi(input[l])
        /\ TitleKey(input[e]) # EmptyStr
        /\ WithTitleKey(input, TitleKey(input[e])) = {e, l}
        /\ e # l
        /\ input[e].publication_date # None /\ input[l].publication_date # None
        /\ CitDate(input[e].publication_date).ok /\ CitDate(input[l].publication_date).ok
        /\ DateLeq(CitDate(input[e].publication_date), CitDate(input[l].publication_date))
        /\ CitDate(input[e].publication_date) # CitDate(input[l].publication_date) }

\* C8: two DOI-less records with the same first 50 characters of title and
\* different dates merge into exactly one record, the one with the earlier
\* date, in either input order (for inputs whose records all have a title).
C8_TitleKeyEarliest ==
    \A r \in TitledRuns :
        \A p \in TitlePairs(r.input) :
            /\ ~r.run.raised
            /\ \A k \in WithTitleKey(r.run.unique_citations, TitleKey(r.input[p[1]])) :
                  r.run.unique_citations[k] = r.input[p[1]]
            /\ Cardinality(WithTitleKey(r.run.unique_citations, TitleKey(r.input[p[1]]))) = 1

\* C8 witness: the later record came first, with another title after the 50th
\* character, and the merged list is the earlier record alone.
C8_Witness ==
    /\ merge_runs.ab.done
    /\ Len(RunInputs[1].input) = 2
    /\ <<2, 1>> \in TitlePairs(RunInputs[1].input)
    /\ RunInputs[1].input[1].title # RunInputs[1].input[2].title
    /\ merge_runs.ab.unique_citations = <<RunInputs[1].input[2]>>

-----------------------------------------------------------------------------
(* The run: C9, C10 (under Spec) *)

\* the publications whose fetch step is over
Fetched == {p \in 1..Len(TRANSLATOR_pubs) : p < i \/ (p = i /\ pc = "combine")}

\* the publications whose loop iteration is over
Iterated == {p \in 1..Len(TRANSLATOR_pubs) : p < i}

CallsOf(p) == {c \in Range(calls) : c.pub = p}

ByDoi == {"get_citations_openalex_from_doi", "get_citations_semanticscholar_from_doi"}
ByTitle == {"get_citations_openalex_from_title", "get_citations_semanticscholar_from_title"}

\* both adapters were called for the publication and both returned nothing
BothEmpty(p) == Cardinality(CallsOf(p)) = 2 /\ \A c \in CallsOf(p) : ~c.found

\* the DOI-less citations, with a title, that the last fetch returned
TitleOnlyFetched ==
    {c \in Range(openalex_cits.v.citations) \cup Range(semanticscholar_cits.v.citations) :
        ~HasDoi(c) /\ TitleKey(c) # EmptyStr}

\* C9: a publication with a DOI is looked up by DOI at both providers and never
\* by title; one without a DOI but with a title is looked up by that title at
\* both providers, and a DOI-less citation the title search returns is in the
\* merged set recorded for the publication.
C9_LookupPrecedence ==
    \A p \in Fetched :
        /\ DOIS[p] # EmptyStr =>
              /\ {c.fn : c \in CallsOf(p)} = ByDoi
              /\ \A c \in CallsOf(p) : c.arg = DOIS[p]
        /\ (DOIS[p] = EmptyStr /\ TITLES[p] # EmptyStr) =>
              /\ {c.fn : c \in CallsOf(p)} = ByTitle
              /\ \A c \in CallsOf(p) : c.arg = TITLES[p]
              /\ (p \in Iterated /\ i = p + 1 /\ pc \in {"fetch", "write"}) =>
                    \A c \in TitleOnlyFetched :
                        \E k \in 1..Len(all_citing_by_doi) :
                            /\ all_citing_by_doi[k].key \in {DOIS[p], TITLES[p]}
                            /\ WithTitleKey(all_citing_by_doi[k].cits, TitleKey(c)) # {}

\* C10: a publication for which both providers return nothing is recorded with
\* an empty citation set, and the run still writes the snapshot, also when every
\* publication of the run is such a publication.
C10_NoCitationsRecorded ==
    /\ \A p \in Iterated :
          BothEmpty(p) =>
            \E k \in 1..Len(all_citing_by_doi) :
                /\ all_citing_by_doi[k].key \in {DOIS[p], TITLES[p]}
                /\ all_citing_by_doi[k].cits = <<>>
    /\ ( /\ TRANSLATOR_pubs # <<>>
         /\ \A p \in 1..Len(TRANSLATOR_pubs) : BothEmpty(p)
         /\ snapshot_file.opens > 0 )
       => snapshot_file.dumped

-----------------------------------------------------------------------------
(* The snapshot: C11, C12 (under Spec) *)

\* the identifier of a tracked publication: its DOI if it has one, else its title
Identifier(p) == IF DOIS[p] # EmptyStr THEN DOIS[p] ELSE TITLES[p]

\* the step is a loop iteration that records a deduplicated list (line 277)
Records ==
    /\ pc = "combine"
    /\ i' = i + 1
    /\ all_citations'.bound
    /\ all_citations'.v # <<>>

\* C11: the snapshot maps each publication's identifier (its DOI, else its
\* title) to its deduplicated citations: the iteration of a publication records
\* its list under that identifier, and unless an earlier publication has the
\* same identifier it adds an entry and leaves every other entry as it was.
C11_SnapshotByIdentifier ==
    [][ Records =>
          /\ \E k \in 1..Len(all_citing_by_doi') :
                /\ all_citing_by_doi'[k].key = Identifier(i)
                /\ all_citing_by_doi'[k].cits = Deduplicate(all_citations'.v).unique_citations
          /\ (\A q \in 1..(i - 1) : Identifier(q) # Identifier(i)) =>
                /\ Len(all_citing_by_doi') = Len(all_citing_by_doi) + 1
                /\ SubSeq(all_citing_by_doi', 1, Len(all_citing_by_doi)) = all_citing_by_doi
      ]_vars

\* C12: the snapshot file is written at most once in a run, only when the loop
\* has completed for every tracked publication and before any aggregation for
\* a cutoff date; a run that is interrupted or raises inside the loop leaves
\* the file untouched.
C12_WriteOnceAfterLoop ==
    [][ /\ snapshot_file' # snapshot_file =>
              /\ snapshot_file = NoFile
              /\ snapshot_file'.opens = 1
              /\ i > Len(TRANSLATOR_pubs)
              /\ outs = <<>>
        /\ outs' # outs => snapshot_file.dumped /\ snapshot_file' = snapshot_file
        /\ (pc' = "raised" /\ i' <= Len(TRANSLATOR_pubs)) => snapshot_file' = NoFile
      ]_vars

\* two publications were iterated, the snapshot was dumped, a cutoff was aggregated
C12_Witness ==
    /\ Len(TRANSLATOR_pubs) = 2
    /\ i = 3
    /\ snapshot_file.opens = 1
    /\ snapshot_file.dumped
    /\ Len(snapshot_file.content) = 1
    /\ outs # <<>>

-----------------------------------------------------------------------------
(* Date shapes: C13 (under FilterSpec) *)

\* "YYYY"
IsYear(s) == Len(s) = 4 /\ AllDigits(s)

\* "YYYY-MM"
IsYearMonth(s) ==
    /\ Len(s) = 7
    /\ AllDigits(SubSeq(s, 1, 4))
    /\ s[5] = "-"
    /\ AllDigits(SubSeq(s, 6, 7))

\* the snapshot with f applied to each citing list
MapCitingLists(snapshot, f(_)) ==
    [k \in 1..Len(snapshot) |-> [key |-> snapshot[k].key, cits |-> f(snapshot[k].cits)]]

\* the citing list with every date "YYYY" written "YYYY-01-01"
YearsAsJanuaryFirst(cits) ==
    [k \in 1..Len(cits) |->
        IF IsYear(cits[k].publication_date)
        THEN [cits[k] EXCEPT !.publication_date = @ \o <<"-", "0", "1", "-", "0", "1">>]
        ELSE cits[k]]

\* the citing list without its citations dated "YYYY-MM"
WithoutYearMonths(cits) == SelectSeq(cits, LAMBDA c : ~IsYearMonth(c.publication_date))

\* C13: for every cutoff, the counts of filter_citations_by_date are those of
\* the snapshot in which every citation dated "YYYY" is dated "YYYY-01-01"
\* instead, and those of the snapshot without its citations dated "YYYY-MM":
\* a bare year qualifies as the first of January, a year-month never counts
\* and never aborts the aggregation.
C13_YearShapes ==
    \A k \in 1..Len(outs) :
       /\ outs[k].out =
             filter_citations_by_date(MapCitingLists(output.v, YearsAsJanuaryFirst),
                                      outs[k].date_str)
       /\ outs[k].out =
             filter_citations_by_date(MapCitingLists(output.v, WithoutYearMonths),
                                      outs[k].date_str)

\* a citing list starts with a citation dated "YYYY-MM" before the cutoff and
\* goes on with one dated "YYYY", which is the one counted
C13_Witness ==
    /\ pc = "filter"
    /\ \E k \in 1..Len(outs), e \in 1..Len(output.v) :
          /\ Len(output.v) = 1
          /\ Len(output.v[e].cits) = 2
          /\ output.v[e].cits[1].publication_date = D2021_06
          /\ output.v[e].cits[2].publication_date = D2021
          /\ Truthy(output.v[e].cits[1].doi)
          /\ Truthy(output.v[e].cits[2].doi)
          /\ outs[k].date_str = D2021_06_15
          /\ outs[k].out.num_citing_pubs = 1

-----------------------------------------------------------------------------
(* Dateless title-only records: C14 (under MergeSpec) *)

\* the non-empty title keys of an input that only DOI-less records have, some
\* of them without publication_date
DatelessKeys(input) ==
    { TitleKey(input[k]) : k \in
        { j \in 1..Len(input) :
            /\ TitleKey(input[j]) # EmptyStr
            /\ \A m \in WithTitleKey(input, TitleKey(input[j])) : ~HasDoi(input[m])
            /\ \E m \in WithTitleKey(input, TitleKey(input[j])) :
                  input[m].publication_date = None } }

\* the record that is to hold a title key: the earliest dated one, the first
\* seen among equal dates, or the first seen when none has a date
Holder(input, key) ==
    LET group == WithTitleKey(input, key)
        dated == {k \in group : input[k].publication_date # None}
        Day(k) == CitDate(input[k].publication_date)
    IN IF dated = {}
       THEN CHOOSE k \in group : \A j \in group : k <= j
       ELSE CHOOSE k \in dated :
              \A j \in dated : /\ DateLeq(Day(k), Day(j))
                               /\ Day(k) = Day(j) => k <= j

\* C14: DOI-less records sharing a title key, some without publication_date:
\* the merge completes without raising and holds one record for the key, the
\* earliest dated one (first seen on ties), or the first seen when none has a
\* date; a dateless record seen first is replaced by a dated one that follows
\* (for inputs whose records all have a title).
C14_DatelessHolder ==
    \A r \in TitledRuns :
        \A key \in DatelessKeys(r.input) :
            /\ ~r.run.raised
            /\ Cardinality(WithTitleKey(r.run.unique_citations, key)) = 1
            /\ \A k \in WithTitleKey(r.run.unique_citations, key) :
                  r.run.unique_citations[k] = r.input[Holder(r.input, key)]

-----------------------------------------------------------------------------
(* The locals of the loop: C15 (under Spec) *)

\* the step reads the provider results at line 211
ReadsResults ==
    \/ CombineUnbound
    \/ NoCitations
    \/ CombineAndMerge
    \/ InterruptCombined
    \/ InterruptFoundPrint
    \/ InterruptAfterOutput

\* C15: what an iteration reads was fetched for its own publication in that
\* iteration: when the provider results are read, both were assigned, by
\* adapter calls made for the publication of this iteration, and the combined
\* list that is deduplicated and recorded is the one built from them.
C15_FreshResults ==
    [][ ReadsResults =>
          /\ openalex_cits.bound
          /\ semanticscholar_cits.bound
          /\ Cardinality(CallsOf(i)) = 2
          /\ all_citations'.bound =>
                all_citations' = Combined(openalex_cits.v, semanticscholar_cits.v,
                                          Unbound(<<>>))
      ]_vars

====
